---- MODULE Spec2Model ----
(***************************************************************************)
(* Certificattaca: the box-placement / column-mapping workspace            *)
(* (WorkspaceCanvas), the draggable text box (DraggableBox, in its two     *)
(* variants) and the dataset column drag handle (DatasetPreview).          *)
(*                                                                         *)
(* Coordinates are integers.  The scale (rendered width / natural width)   *)
(* is a fraction <<num, den>> with num = 1, so that the division by scale  *)
(* the handlers perform is exact.  Box ids "box-n" are modelled by n.      *)
(* mousePos and dragStartPos of WorkspaceCanvas only feed the drawing of   *)
(* the connector and are left out.                                         *)
(***************************************************************************)
EXTENDS Integers, Sequences, FiniteSets, TLC

----------------------------------------------------------------------------
(* Bounds of the model *)

MaxBoxes == 2
MaxGestures == 2

None == "none"

(* hoveredBox = null *)
NoBox == 0

NoToast == [kind |-> "none", text |-> "", column |-> None, box |-> NoBox, count |-> 0]

Toast(kind, text) == [NoToast EXCEPT !.kind = kind, !.text = text]

(* A cell of the dataset.  Papa.parse yields strings; XLSX.utils            *)
(* sheet_to_json yields the raw cell values, numbers among them.  text is  *)
(* String(value).                                                          *)
Str(s) == [number |-> FALSE, text |-> s]
Num(s) == [number |-> TRUE, text |-> s]

(* The rows of the uploaded dataset are a prefix of these; the first row   *)
(* holds the number 0, the second row is shorter than the header row.      *)
RowPool ==
  <<<<Str("Ada"), Num("0")>>, <<Str("Bob")>>, <<Str(""), Num("7")>>, <<Str("Dee"), Str("9")>>>>

MaxRows == 2

(* The two DraggableBox implementations of the repository. *)
Variants == {"first", "raf"}

(* scale = rendered width / natural width, as <<numerator, denominator>> *)
Scales == {<<1, 1>>, <<1, 2>>}

(* The column headers of the dataset the workspace is mounted with. *)
Header == <<"Name", "Score">>

(* Resize handles of a box, and "move" for a press on the box body. *)
Handles == {"n", "s", "e", "w", "ne", "nw", "se", "sw"}

(* Which edges a handle moves: direction.includes(letter). *)
Includes(direction, letter) ==
  CASE letter = "n" -> direction \in {"n", "ne", "nw"}
    [] letter = "s" -> direction \in {"s", "se", "sw"}
    [] letter = "e" -> direction \in {"e", "ne", "se"}
    [] letter = "w" -> direction \in {"w", "nw", "sw"}

(* Layout of the page in client coordinates: the template image's bounding *)
(* rect has its top-left corner at the client origin; the column drag      *)
(* handles of the dataset preview lie to the right of the template.        *)
TemplateWidth == 400
TemplateHeight == 300
HandleX == 500

(* While no button is held and no column is dragged, no handler of the     *)
(* workspace reads the pointer: it is kept at Away, and a press names the  *)
(* position it lands on.                                                   *)
Away == <<0, 0>>

Max(a, b) == IF a >= b THEN a ELSE b
Min(a, b) == IF a <= b THEN a ELSE b

----------------------------------------------------------------------------
VARIABLES
  variant,            \* which DraggableBox implementation is mounted
  scale,              \* WorkspaceCanvas scale state
  boxes,              \* WorkspaceCanvas boxes state (BoxPosition[])
  columnMappings,     \* WorkspaceCanvas columnMappings state (ColumnMapping[])
  draggingColumn,     \* WorkspaceCanvas draggingColumn state
  hoveredBox,         \* WorkspaceCanvas hoveredBox state (a box id or None)
  isDragging,         \* WorkspaceCanvas isDragging state
  pointer,            \* client position of the latest pointer event of a gesture
  mouseDown,          \* the pointer button is held
  dragIdx,            \* position in boxes of the DraggableBox being dragged, 0 if none
  boxIsDragging,      \* DraggableBox isDragging state of that box
  isResizing,         \* DraggableBox isResizing state of that box
  startPos,           \* DraggableBox startPos ref of that box
  pendingUpdateRef,   \* DraggableBox pendingUpdateRef (raf variant): <<>> or <<rect>>
  animationFrameRef,  \* DraggableBox animationFrameRef: a frame is requested
  gestures,           \* number of box presses so far
  toast,              \* the notification the latest handler emitted
  dropped,            \* history: the columns ever dropped onto a box
  rows,               \* the rows prop of WorkspaceCanvas
  isGenerating,       \* WorkspaceCanvas isGenerating state
  exportPc,           \* where generateCertificates is suspended: idle, image, blob, zip
  exportRow,          \* loop index i of generateCertificates (0-based)
  exportBoxes,        \* boxes as captured by the running generateCertificates
  exportMappings,     \* columnMappings as captured by the running generateCertificates
  canvas,             \* the fillText calls made on the canvas of row i
  zip,                \* the files added to the JSZip archive
  download,           \* the archive the latest handler handed to the browser, <<>> or <<files>>
  prevMappings,       \* history: columnMappings as the latest handler found it
  computed,           \* history: what the latest handleMouseMove of a box gesture computed
  templateFile,       \* Index templateFile state: None or the name of the file
  templateUrl,        \* Index templateUrl state: 0 for "", or the number of the object URL
  datasetFile,        \* Index datasetFile state: <<>> for null, or the name of the file
  columns,            \* Index columns state, the columns prop of WorkspaceCanvas
  reading,            \* the dataset files whose handleDatasetUpload awaits the file's bytes
  previewProps,       \* the boxes and columnMappings props of CertificatePreview
  previewImage,       \* CertificatePreview previewImage state: <<>> for "", or <<the draw list>>
  showPreview,        \* CertificatePreview showPreview state
  previewRuns         \* the generatePreview calls that await their image, by the props they hold

uiCore == <<variant, scale, boxes, columnMappings, draggingColumn, hoveredBox,
            isDragging, pointer, mouseDown, dragIdx, boxIsDragging, isResizing,
            startPos, pendingUpdateRef, gestures, dropped>>

uiVars == <<uiCore, animationFrameRef, toast>>

exportVars == <<rows, isGenerating, exportPc, exportRow, exportBoxes, exportMappings,
                canvas, zip>>

(* The state of the Index page apart from rows *)
indexVars == <<templateFile, templateUrl, datasetFile, columns, reading>>

(* The state of CertificatePreview *)
previewVars == <<previewProps, previewImage, showPreview, previewRuns>>

vars == <<uiVars, exportVars, download, prevMappings, computed, indexVars, previewVars>>

HandlePoint(c) == <<HandleX, 10 * c>>

(* Client positions the pointer visits. *)
ClientPoints ==
  {<<60, 60>>, <<260, 100>>, <<500, 200>>} \cup {HandlePoint(c) : c \in 1..Len(columns)}


(* What a handler of the workspace emits: a notification, and no download; *)
(* the state of the page that mounts the workspace is out of its reach.    *)
EmitKeep(t) ==
  /\ toast' = t
  /\ download' = <<>>
  /\ prevMappings' = columnMappings
  /\ UNCHANGED indexVars
  /\ UNCHANGED previewVars

(* The same for a handler that is no part of a box gesture: the record of  *)
(* the latest gesture ends.                                                *)
Emit(t) == EmitKeep(t) /\ computed' = <<>>

NoStartPos == [x |-> 0, y |-> 0, boxX |-> 0, boxY |-> 0, width |-> 0, height |-> 0]

----------------------------------------------------------------------------
(* Geometry / transform *)

(* (client - origin) / scale *)
ToNatural(d) == (d * scale[2]) \div scale[1]

(* Where a client point lies. *)
Region(p) ==
  IF /\ p[1] >= 0 /\ p[1] * scale[2] <= TemplateWidth * scale[1]
     /\ p[2] >= 0 /\ p[2] * scale[2] <= TemplateHeight * scale[1]
    THEN "template"
    ELSE IF \E c \in 1..Len(columns) : p = HandlePoint(c) THEN "handle" ELSE "elsewhere"

(* boxes.find(box => x >= box.x && x <= box.x + box.width && ...) *)
Contains(box, x, y) ==
  /\ x >= box.x /\ x <= box.x + box.width
  /\ y >= box.y /\ y <= box.y + box.height

(* A hit test that takes the box created last, the one drawn on top. *)
HitTestTopmost(p) ==
  LET x == ToNatural(p[1])
      y == ToNatural(p[2])
      hits == {i \in 1..Len(boxes) : Contains(boxes[i], x, y)}
  IN IF hits = {} THEN NoBox
     ELSE boxes[CHOOSE i \in hits : \A j \in hits : j <= i].id

HitTest(p) ==
  LET x == ToNatural(p[1])
      y == ToNatural(p[2])
      hits == {i \in 1..Len(boxes) : Contains(boxes[i], x, y)}
  IN IF hits = {} THEN NoBox
     ELSE boxes[CHOOSE i \in hits : \A j \in hits : i <= j].id

(* The overlay of a box is drawn at left: box.x px, top: box.y px with     *)
(* width: box.width px, height: box.height px inside the template          *)
(* container; the resize handles sit on its border.                        *)
OnOverlay(box, p) ==
  /\ p[1] >= box.x /\ p[1] <= box.x + box.width
  /\ p[2] >= box.y /\ p[2] <= box.y + box.height

(* The box a press at p lands on: the overlay rendered last lies on top. *)
TopBoxAt(p) ==
  LET under == {i \in 1..Len(boxes) : OnOverlay(boxes[i], p)}
  IN IF under = {} \/ Region(p) # "template" THEN 0
     ELSE CHOOSE i \in under : \A j \in under : j <= i

----------------------------------------------------------------------------
(* The page mounts WorkspaceCanvas once a template and a dataset with a    *)
(* header row are uploaded.                                                *)
Uploaded ==
  /\ templateFile = "certificate.png"
  /\ templateUrl = 1
  /\ datasetFile = <<"people", "csv">>
  /\ columns = Header
  /\ reading = {}

(* CertificatePreview as mounted: no image, nothing shown, no run; until  *)
(* its parent hands it boxes it has none.                                  *)
PreviewInit ==
  /\ previewProps = [boxes |-> <<>>, columnMappings |-> <<>>]
  /\ previewImage = <<>>
  /\ showPreview = FALSE
  /\ previewRuns = {}

Init ==
  /\ variant \in Variants
  /\ scale \in Scales
  /\ boxes = <<>>
  /\ columnMappings = <<>>
  /\ draggingColumn = None
  /\ hoveredBox = NoBox
  /\ isDragging = FALSE
  /\ pointer = Away
  /\ mouseDown = FALSE
  /\ dragIdx = 0
  /\ boxIsDragging = FALSE
  /\ isResizing = None
  /\ startPos = NoStartPos
  /\ pendingUpdateRef = <<>>
  /\ animationFrameRef = FALSE
  /\ gestures = 0
  /\ toast = NoToast
  /\ dropped = {}
  /\ rows = SubSeq(RowPool, 1, MaxRows)
  /\ isGenerating = FALSE
  /\ exportPc = "idle"
  /\ exportRow = 0
  /\ exportBoxes = <<>>
  /\ exportMappings = <<>>
  /\ canvas = <<>>
  /\ zip = <<>>
  /\ download = <<>>
  /\ prevMappings = <<>>
  /\ computed = <<>>
  /\ Uploaded
  /\ PreviewInit

----------------------------------------------------------------------------
(* WorkspaceCanvas: the box model *)

(* The box addBox builds from the current list. *)
NewBox(bs) ==
  [id |-> Len(bs) + 1,
   x |-> 50 + Len(bs) * 20,
   y |-> 50 + Len(bs) * 20,
   width |-> 200,
   height |-> 40,
   columnId |-> None]

(* updateBox: boxes.map(b => b.id === updatedBox.id ? updatedBox : b) *)
updateBox(bs, updatedBox) ==
  [i \in 1..Len(bs) |-> IF bs[i].id = updatedBox.id THEN updatedBox ELSE bs[i]]

(* deleteBox: the two filters *)
BoxesAfterDelete(bs, id) ==
  LET keep(b) == b.id # id IN SelectSeq(bs, keep)

(* A delete that forgets every mapping, and one that keeps them all. *)
MappingsCleared(ms, id) == <<>>

MappingsKept(ms, id) == ms

MappingsAfterDelete(ms, id) ==
  LET keep(m) == m.boxId # id IN SelectSeq(ms, keep)

(* A re-render of WorkspaceCanvas hands every DraggableBox a new onUpdate,  *)
(* so the effect of the box being dragged is torn down and set up again:    *)
(* its cleanup cancels a requested animation frame.                         *)
EffectCleanup == animationFrameRef' = FALSE

(* A press at p: while a column drag is left active with the button up,    *)
(* the pointer has moved to p before.                                      *)
PressAt(p) ==
  /\ ~mouseDown
  /\ p \in ClientPoints
  /\ draggingColumn # None => p = pointer

(* A click on one of the two buttons above the template. *)
ClickOnButton ==
  /\ ~mouseDown
  /\ draggingColumn # None => Region(pointer) = "elsewhere"

(* Click on "Add Text Box". *)
addBox ==
  /\ ClickOnButton
  /\ Len(boxes) < MaxBoxes
  /\ boxes' = Append(boxes, NewBox(boxes))
  /\ Emit(Toast("success", "Text box added"))
  /\ UNCHANGED exportVars
  /\ EffectCleanup
  /\ UNCHANGED <<variant, scale, columnMappings, draggingColumn, hoveredBox,
                 isDragging, pointer, mouseDown, dragIdx, boxIsDragging, isResizing,
                 startPos, pendingUpdateRef, gestures, dropped>>

(* Click on the delete button of the box at position i; the button sits on *)
(* the top right corner of the overlay and is rendered only while no       *)
(* column is being dragged.                                                *)
deleteBox(i) ==
  /\ ~mouseDown
  /\ draggingColumn = None
  /\ boxes' = BoxesAfterDelete(boxes, boxes[i].id)
  /\ columnMappings' = MappingsAfterDelete(columnMappings, boxes[i].id)
  /\ Emit(Toast("success", "Text box deleted"))
  /\ UNCHANGED exportVars
  /\ EffectCleanup
  /\ UNCHANGED <<variant, scale, draggingColumn, hoveredBox,
                 isDragging, pointer, mouseDown, dragIdx, boxIsDragging, isResizing,
                 startPos, pendingUpdateRef, gestures, dropped>>

----------------------------------------------------------------------------
(* DraggableBox *)

Moves == Handles \cup {"move"}

(* dx, dy of handleMouseMove for a pointer at client position p *)
Dx(p) == ToNatural(p[1] - startPos.x)
Dy(p) == ToNatural(p[2] - startPos.y)

(* First variant, handleMouseMove: the box handed to onUpdate. *)
FirstMoved(box, p) ==
  IF boxIsDragging
    THEN [box EXCEPT !.x = startPos.boxX + Dx(p), !.y = startPos.boxY + Dy(p)]
    ELSE
      LET w1 == IF Includes(isResizing, "e")
                  THEN Max(50, startPos.width + Dx(p)) ELSE startPos.width
          newWidth == IF Includes(isResizing, "w")
                        THEN Max(50, startPos.width - Dx(p)) ELSE w1
          newX == IF Includes(isResizing, "w") THEN startPos.boxX + Dx(p) ELSE box.x
          h1 == IF Includes(isResizing, "s")
                  THEN Max(30, startPos.height + Dy(p)) ELSE startPos.height
          newHeight == IF Includes(isResizing, "n")
                         THEN Max(30, startPos.height - Dy(p)) ELSE h1
          newY == IF Includes(isResizing, "n") THEN startPos.boxY + Dy(p) ELSE box.y
      IN [box EXCEPT !.x = newX, !.y = newY, !.width = newWidth, !.height = newHeight]

(* Animation-frame variant, handleMouseMove: the value stored in            *)
(* pendingUpdateRef.                                                        *)
RafPending(box, p) ==
  IF boxIsDragging
    THEN [x |-> Max(0, startPos.boxX + Dx(p)),
          y |-> Max(0, startPos.boxY + Dy(p)),
          width |-> box.width,
          height |-> box.height]
    ELSE
      LET deltaWidth == Min(Dx(p), startPos.width - 50)
          deltaHeight == Min(Dy(p), startPos.height - 30)
          w1 == IF Includes(isResizing, "e")
                  THEN Max(50, startPos.width + Dx(p)) ELSE startPos.width
          newWidth == IF Includes(isResizing, "w") THEN startPos.width - deltaWidth ELSE w1
          newX == IF Includes(isResizing, "w")
                    THEN startPos.boxX + deltaWidth ELSE startPos.boxX
          h1 == IF Includes(isResizing, "s")
                  THEN Max(30, startPos.height + Dy(p)) ELSE startPos.height
          newHeight == IF Includes(isResizing, "n") THEN startPos.height - deltaHeight ELSE h1
          newY == IF Includes(isResizing, "n")
                    THEN startPos.boxY + deltaHeight ELSE startPos.boxY
      IN [x |-> Max(0, newX), y |-> Max(0, newY), width |-> newWidth, height |-> newHeight]

(* The position and size of a box *)
Rect(box) == [x |-> box.x, y |-> box.y, width |-> box.width, height |-> box.height]

(* A faulty update that hands the box on as it was: the pending value is   *)
(* dropped.                                                                *)
ApplyStale(box, pending) == box

(* onUpdate({...box, x: pending.x, y: pending.y, width: ..., height: ...}) *)
ApplyPending(box, pending) ==
  [box EXCEPT !.x = pending.x, !.y = pending.y,
              !.width = pending.width, !.height = pending.height]

(* A faulty press handler without the isDraggingColumn check. *)
boxMouseDownAnyway(i, direction, p) ==
  /\ PressAt(p)
  /\ i = TopBoxAt(p)
  /\ mouseDown' = TRUE
  /\ pointer' = p
  /\ direction = "move" \/ draggingColumn = None
  /\ draggingColumn = None => gestures < MaxGestures
  /\ gestures' = IF draggingColumn = None THEN gestures + 1 ELSE gestures
  /\ dragIdx' = i
  /\ boxIsDragging' = (direction = "move")
  /\ isResizing' = IF direction = "move" THEN None ELSE direction
  /\ startPos' = [x |-> p[1], y |-> p[2],
                  boxX |-> boxes[i].x, boxY |-> boxes[i].y,
                  width |-> boxes[i].width, height |-> boxes[i].height]
  /\ Emit(NoToast)
  /\ UNCHANGED exportVars
  /\ UNCHANGED <<variant, scale, boxes, columnMappings, draggingColumn, hoveredBox,
                 isDragging, pendingUpdateRef, animationFrameRef, dropped>>

(* Press at p on the body ("move") or on a resize handle of the box at     *)
(* position i.  The handles are rendered only while no column is dragged;  *)
(* a press on the body during a column drag returns at once.               *)
boxMouseDown(i, direction, p) ==
  /\ PressAt(p)
  /\ i = TopBoxAt(p)
  /\ mouseDown' = TRUE
  /\ pointer' = p
  /\ IF draggingColumn # None
       THEN /\ direction = "move"
            /\ UNCHANGED <<dragIdx, boxIsDragging, isResizing, startPos, gestures>>
       ELSE /\ gestures < MaxGestures
            /\ gestures' = gestures + 1
            /\ dragIdx' = i
            /\ boxIsDragging' = (direction = "move")
            /\ isResizing' = IF direction = "move" THEN None ELSE direction
            /\ startPos' = [x |-> p[1], y |-> p[2],
                            boxX |-> boxes[i].x, boxY |-> boxes[i].y,
                            width |-> boxes[i].width, height |-> boxes[i].height]
  /\ Emit(NoToast)
  /\ UNCHANGED exportVars
  /\ UNCHANGED <<variant, scale, boxes, columnMappings, draggingColumn, hoveredBox,
                 isDragging, pendingUpdateRef, animationFrameRef, dropped>>

(* requestAnimationFrame callback of the animation-frame variant *)
animationFrame ==
  /\ animationFrameRef
  /\ animationFrameRef' = FALSE
  /\ pendingUpdateRef' = <<>>
  /\ boxes' = IF pendingUpdateRef # <<>>
                THEN updateBox(boxes, ApplyPending(boxes[dragIdx], pendingUpdateRef[1]))
                ELSE boxes
  /\ EmitKeep(NoToast)
  /\ UNCHANGED exportVars
  /\ UNCHANGED <<variant, scale, columnMappings, draggingColumn, hoveredBox,
                 isDragging, pointer, mouseDown, dragIdx, boxIsDragging, isResizing,
                 startPos, gestures, dropped, computed>>

----------------------------------------------------------------------------
(* WorkspaceCanvas: column drag *)

(* Faulty upserts, which the mapping properties below must tell from       *)
(* upsertMapping: one that always appends, one that leaves an existing      *)
(* entry as it is, one that moves the entry of the column to the end.       *)
appendMapping(ms, c, h) == Append(ms, [columnId |-> c, boxId |-> h])

upsertKeepBox(ms, c, h) ==
  IF \E k \in 1..Len(ms) : ms[k].columnId = c
    THEN ms
    ELSE Append(ms, [columnId |-> c, boxId |-> h])

upsertReappend(ms, c, h) ==
  LET other(m) == m.columnId # c
  IN Append(SelectSeq(ms, other), [columnId |-> c, boxId |-> h])

(* handleDragEnd, the mapping list after a drop of column c on box h:      *)
(* columnMappings.find(m => m.columnId === c) decides between map and      *)
(* append.                                                                 *)
upsertMapping(ms, c, h) ==
  IF \E k \in 1..Len(ms) : ms[k].columnId = c
    THEN [k \in 1..Len(ms) |-> IF ms[k].columnId = c
                                 THEN [ms[k] EXCEPT !.boxId = h] ELSE ms[k]]
    ELSE Append(ms, [columnId |-> c, boxId |-> h])

(* handleDragEnd: boxes.map(b => b.id === h ? {...b, columnId: c} : b) *)
SetBoxColumn(bs, h, c) ==
  [k \in 1..Len(bs) |-> IF bs[k].id = h THEN [bs[k] EXCEPT !.columnId = c] ELSE bs[k]]

(* Press on the drag handle of column header c of the dataset preview:     *)
(* DatasetPreview.handleDragStart, then handleColumnDragStart.             *)
handleColumnDragStart(c) ==
  /\ PressAt(HandlePoint(c))
  /\ pointer' = HandlePoint(c)
  /\ mouseDown' = TRUE
  /\ draggingColumn' = columns[c]
  /\ isDragging' = TRUE
  /\ EffectCleanup
  /\ Emit(NoToast)
  /\ UNCHANGED exportVars
  /\ UNCHANGED <<variant, scale, boxes, columnMappings, hoveredBox,
                 dragIdx, boxIsDragging, isResizing, startPos, pendingUpdateRef,
                 gestures, dropped>>

(* A press at p that no handler of the workspace takes: on the template    *)
(* background or outside the template.  It matters only while a column     *)
(* drag is active, where its release may reach handleDragEnd.              *)
mousePress(p) ==
  /\ PressAt(p)
  /\ draggingColumn # None
  /\ Region(p) # "handle"
  /\ TopBoxAt(p) = 0
  /\ mouseDown' = TRUE
  /\ pointer' = p
  /\ Emit(NoToast)
  /\ UNCHANGED exportVars
  /\ UNCHANGED <<variant, scale, boxes, columnMappings, draggingColumn, hoveredBox,
                 isDragging, dragIdx, boxIsDragging, isResizing, startPos,
                 pendingUpdateRef, animationFrameRef, gestures, dropped>>

(* The pointer moves to client position p.  While a column is dragged the  *)
(* document listener handleGlobalMouseMove (and, over the template,        *)
(* handleCanvasMouseMove, which computes the same) hit-tests the boxes;     *)
(* while a box is dragged the document listener of its DraggableBox runs.  *)
mouseMove(p) ==
  /\ mouseDown \/ draggingColumn # None
  /\ p # pointer
  /\ pointer' = p
  /\ hoveredBox' = IF draggingColumn # None THEN HitTest(p) ELSE hoveredBox
  /\ IF dragIdx # 0 /\ variant = "first"
       THEN /\ boxes' = updateBox(boxes, FirstMoved(boxes[dragIdx], p))
            /\ UNCHANGED <<pendingUpdateRef, animationFrameRef>>
       ELSE IF dragIdx # 0
         THEN /\ pendingUpdateRef' = <<RafPending(boxes[dragIdx], p)>>
              /\ animationFrameRef' = TRUE
              /\ UNCHANGED boxes
         ELSE UNCHANGED <<boxes, pendingUpdateRef, animationFrameRef>>
  /\ computed' = IF dragIdx = 0 THEN computed
                 ELSE IF variant = "first"
                   THEN <<[idx |-> dragIdx, rect |-> Rect(FirstMoved(boxes[dragIdx], p))]>>
                   ELSE <<[idx |-> dragIdx, rect |-> RafPending(boxes[dragIdx], p)]>>
  /\ EmitKeep(NoToast)
  /\ UNCHANGED exportVars
  /\ UNCHANGED <<variant, scale, columnMappings, draggingColumn, isDragging, mouseDown,
                 dragIdx, boxIsDragging, isResizing, startPos, gestures, dropped>>

(* handleDragEnd is bound to onMouseUp of the template container while a    *)
(* column is dragged, and to onMouseUp of every column drag handle.         *)
DragEndBound ==
  \/ Region(pointer) = "template" /\ draggingColumn # None
  \/ Region(pointer) = "handle"

(* handleDragEnd commits a mapping *)
Drops == draggingColumn # None /\ hoveredBox # NoBox

(* The pointer button is released where the pointer is.  The document      *)
(* listener handleMouseUp of a dragged DraggableBox runs; handleDragEnd    *)
(* runs where it is bound.  startPos is written at every press before it   *)
(* is read, so it is reset here.                                           *)
mouseUp ==
  /\ mouseDown
  /\ mouseDown' = FALSE
  /\ dragIdx' = 0
  /\ boxIsDragging' = FALSE
  /\ isResizing' = None
  /\ startPos' = NoStartPos
  /\ animationFrameRef' = FALSE
  /\ pendingUpdateRef' = <<>>
  /\ LET ends == DragEndBound
         drop == DragEndBound /\ Drops
         flush == dragIdx # 0 /\ variant = "raf" /\ pendingUpdateRef # <<>>
     IN /\ columnMappings' = IF drop
                               THEN upsertMapping(columnMappings, draggingColumn, hoveredBox)
                               ELSE columnMappings
        /\ boxes' = IF drop THEN SetBoxColumn(boxes, hoveredBox, draggingColumn)
                    ELSE IF flush
                      THEN updateBox(boxes, ApplyPending(boxes[dragIdx], pendingUpdateRef[1]))
                      ELSE boxes
        /\ EmitKeep(IF drop
                      THEN [Toast("success", "Mapped column to box")
                              EXCEPT !.column = draggingColumn, !.box = hoveredBox]
                      ELSE NoToast)
        /\ dropped' = IF drop THEN dropped \cup {draggingColumn} ELSE dropped
        /\ draggingColumn' = IF ends THEN None ELSE draggingColumn
        /\ hoveredBox' = IF ends THEN NoBox ELSE hoveredBox
        /\ isDragging' = IF ends THEN FALSE ELSE isDragging
  /\ pointer' = IF draggingColumn' = None THEN Away ELSE pointer
  /\ UNCHANGED <<variant, scale, gestures, computed>>
  /\ UNCHANGED exportVars

(* The window is resized: updateImageSize sets imageSize and scale, and    *)
(* WorkspaceCanvas renders again.                                          *)
updateImageSize(s) ==
  /\ scale' = s
  /\ s # scale
  /\ EffectCleanup
  /\ EmitKeep(NoToast)
  /\ UNCHANGED exportVars
  /\ UNCHANGED <<variant, boxes, columnMappings, draggingColumn, hoveredBox,
                 isDragging, pointer, mouseDown, dragIdx, boxIsDragging, isResizing,
                 startPos, pendingUpdateRef, gestures, dropped, computed>>

----------------------------------------------------------------------------
(* WorkspaceCanvas: generateCertificates *)

(* columns.indexOf(c): the first position of c, 0 for -1 *)
IndexOf(cols, c) ==
  IF \E k \in 1..Len(cols) : cols[k] = c
    THEN CHOOSE k \in 1..Len(cols) : cols[k] = c /\ \A j \in 1..(k - 1) : cols[j] # c
    ELSE 0

(* columnMappings.find(m => m.boxId === id): its position, 0 if undefined *)
MappingFor(ms, id) ==
  IF \E k \in 1..Len(ms) : ms[k].boxId = id
    THEN CHOOSE k \in 1..Len(ms) : ms[k].boxId = id /\ \A j \in 1..(k - 1) : ms[j].boxId # id
    ELSE 0

(* value || "": the values JavaScript takes for false *)
Falsy(cell) == cell.text = "" \/ (cell.number /\ cell.text = "0")

(* rows[i][colIndex] || "", as fillText draws it *)
CellText(row, c) ==
  LET colIndex == IndexOf(columns, c)
  IN IF colIndex = 0 \/ colIndex > Len(row) THEN ""
     ELSE IF Falsy(row[colIndex]) THEN "" ELSE row[colIndex].text

(* ctx.fillText(text, box.x + box.width / 2, box.y + box.height / 2) with  *)
(* font box.height * 0.6: the anchor is kept doubled, the font size        *)
(* tenfold.                                                                *)
FillText(box, m, row) ==
  [text |-> CellText(row, m.columnId),
   x2 |-> 2 * box.x + box.width,
   y2 |-> 2 * box.y + box.height,
   font10 |-> box.height * 6]

(* boxes.forEach(box => { mapping = find(...); if (mapping) fillText }) *)
RECURSIVE DrawBoxes(_, _, _)
DrawBoxes(bs, ms, row) ==
  IF bs = <<>> THEN <<>>
  ELSE LET k == MappingFor(ms, Head(bs).id)
       IN (IF k = 0 THEN <<>> ELSE <<FillText(Head(bs), ms[k], row)>>)
            \o DrawBoxes(Tail(bs), ms, row)

(* CertificatePreview.generatePreview: the same per-box draw on firstRow;  *)
(* nothing is drawn when there is no box or no mapping.                    *)
PreviewFillText(box, m, firstRow) ==
  [text |-> CellText(firstRow, m.columnId),
   x2 |-> 2 * box.x + box.width,
   y2 |-> 2 * box.y + box.height,
   font10 |-> box.height * 6]

RECURSIVE PreviewBoxes(_, _, _)
PreviewBoxes(bs, ms, firstRow) ==
  IF bs = <<>> THEN <<>>
  ELSE LET k == MappingFor(ms, Head(bs).id)
       IN (IF k = 0 THEN <<>> ELSE <<PreviewFillText(Head(bs), ms[k], firstRow)>>)
            \o PreviewBoxes(Tail(bs), ms, firstRow)

generatePreview(bs, ms, firstRow) ==
  IF Len(bs) = 0 \/ Len(ms) = 0 THEN <<>> ELSE PreviewBoxes(bs, ms, firstRow)

(* A faulty precondition check that forgets the unmapped boxes. *)
PreconditionOnlyEmpty(bs, ms) ==
  IF Len(bs) = 0 THEN "Please add at least one text box" ELSE None

(* The precondition checks at the head of generateCertificates: the error  *)
(* notification, or None when the export may start.                        *)
PreconditionError(bs, ms) ==
  IF Len(bs) = 0 THEN "Please add at least one text box"
  ELSE IF \E k \in 1..Len(bs) : MappingFor(ms, bs[k].id) = 0
    THEN "Please map all text boxes to columns"
    ELSE None

(* `certificate-${i + 1}.png`, for the 0-based loop index i *)
FileName(i) == i + 1

(* The row the loop draws at 0-based index i *)
RowAt(i) == rows[i + 1]

(* The mappings a render would read from the state of the component. *)
LiveMappings == columnMappings

(* boxes and columnMappings inside the running generateCertificates: the   *)
(* constants of the render whose button was clicked.                       *)
ClosureBoxes == exportBoxes
ClosureMappings == exportMappings

(* The for loop from index i on, up to its next await: rows whose canvas   *)
(* gives no 2d context are skipped (if (!ctx) continue), the next row is   *)
(* drawn and awaits toBlob; after the last row the loop ends and           *)
(* zip.generateAsync is awaited.                                           *)
RunLoop(i) ==
  \E j \in i..Len(rows) :
    /\ exportRow' = j
    /\ IF j < Len(rows)
         THEN /\ exportPc' = "blob"
              /\ canvas' = DrawBoxes(ClosureBoxes, ClosureMappings, RowAt(j))
         ELSE /\ exportPc' = "zip"
              /\ canvas' = <<>>

(* A faulty end of the export that has no finally block: isGenerating      *)
(* stays as it is.                                                         *)
ExportOverNoFinally ==
  /\ isGenerating' = isGenerating
  /\ exportPc' = "idle"
  /\ exportRow' = 0
  /\ exportBoxes' = <<>>
  /\ exportMappings' = <<>>
  /\ canvas' = <<>>
  /\ zip' = <<>>

(* The closure of a finished generateCertificates is gone. *)
ExportOver ==
  /\ isGenerating' = FALSE
  /\ exportPc' = "idle"
  /\ exportRow' = 0
  /\ exportBoxes' = <<>>
  /\ exportMappings' = <<>>
  /\ canvas' = <<>>
  /\ zip' = <<>>

(* A button that is disabled only while there is no box. *)
DisabledWhenEmpty == Len(boxes) = 0

(* disabled={isGenerating || boxes.length === 0} *)
GenerateDisabled == isGenerating \/ Len(boxes) = 0

(* Click on "Generate Certificates". *)
generateCertificates ==
  /\ ClickOnButton
  /\ ~GenerateDisabled
  /\ IF PreconditionError(boxes, columnMappings) # None
       THEN /\ Emit(Toast("error", PreconditionError(boxes, columnMappings)))
            /\ UNCHANGED <<isGenerating, exportPc, exportBoxes, exportMappings,
                           animationFrameRef>>
       ELSE /\ isGenerating' = TRUE
            /\ Emit(Toast("info", "Generating certificates..."))
            /\ exportPc' = "image"
            /\ exportBoxes' = boxes
            /\ exportMappings' = columnMappings
            /\ EffectCleanup
  /\ UNCHANGED <<variant, scale, boxes, columnMappings, draggingColumn, hoveredBox,
                 isDragging, pointer, mouseDown, dragIdx, boxIsDragging, isResizing,
                 startPos, pendingUpdateRef, gestures, dropped, rows, exportRow,
                 canvas, zip>>

(* img.onload: the template is decoded and the loop starts. *)
imageLoaded ==
  /\ exportPc = "image"
  /\ RunLoop(0)
  /\ Emit(NoToast)
  /\ UNCHANGED <<uiCore, animationFrameRef, rows, isGenerating, exportBoxes,
                 exportMappings, zip>>

(* img.onerror: the await rejects; catch shows the failure, finally clears *)
(* isGenerating.                                                           *)
imageError ==
  /\ exportPc = "image"
  /\ Emit(Toast("error", "Failed to generate certificates"))
  /\ ExportOver
  /\ EffectCleanup
  /\ UNCHANGED <<uiCore, rows>>

(* canvas.toBlob calls back: zip.file(name, blob), then the loop goes on. *)
blobReady ==
  /\ exportPc = "blob"
  /\ zip' = Append(zip, [name |-> FileName(exportRow), image |-> canvas])
  /\ RunLoop(exportRow + 1)
  /\ Emit(NoToast)
  /\ UNCHANGED <<uiCore, animationFrameRef, rows, isGenerating, exportBoxes,
                 exportMappings>>

(* Rendering or encoding a row throws inside the try block (drawImage,     *)
(* fillText, or canvas.toBlob on a canvas that may not be read, zip.file):  *)
(* the loop is left for catch and finally.  The row that throws is the     *)
(* first one after the template loaded, or a later one after a blob        *)
(* arrived.                                                                *)
rowError ==
  /\ \/ exportPc = "image" /\ Len(rows) > 0
     \/ exportPc = "blob"
  /\ Emit(Toast("error", "Failed to generate certificates"))
  /\ ExportOver
  /\ EffectCleanup
  /\ UNCHANGED <<uiCore, rows>>

(* zip.generateAsync rejects: catch, finally. *)
zipError ==
  /\ exportPc = "zip"
  /\ Emit(Toast("error", "Failed to generate certificates"))
  /\ ExportOver
  /\ EffectCleanup
  /\ UNCHANGED <<uiCore, rows>>

(* zip.generateAsync resolves: the archive is downloaded, success reports  *)
(* rows.length, finally clears isGenerating.                               *)
zipGenerated ==
  /\ exportPc = "zip"
  /\ download' = <<zip>>
  /\ prevMappings' = columnMappings
  /\ computed' = <<>>
  /\ UNCHANGED indexVars
  /\ UNCHANGED previewVars
  /\ toast' = [Toast("success", "Generated certificates") EXCEPT !.count = Len(rows)]
  /\ ExportOver
  /\ EffectCleanup
  /\ UNCHANGED <<uiCore, rows>>

----------------------------------------------------------------------------
Next ==
  \/ addBox
  \/ \E i \in 1..Len(boxes) : deleteBox(i)
  \/ \E i \in 1..Len(boxes), d \in Moves, p \in ClientPoints : boxMouseDown(i, d, p)
  \/ animationFrame
  \/ \E c \in 1..Len(columns) : handleColumnDragStart(c)
  \/ \E p \in ClientPoints : mousePress(p)
  \/ \E p \in ClientPoints : mouseMove(p)
  \/ mouseUp
  \/ \E s \in Scales : updateImageSize(s)
  \/ generateCertificates
  \/ imageLoaded
  \/ imageError
  \/ blobReady
  \/ rowError
  \/ zipError
  \/ zipGenerated

Spec == Init /\ [][Next]_vars

(* The three parts of the workspace are explored one at a time.            *)

(* Boxes: adding, deleting, moving and resizing, under both DraggableBox   *)
(* variants and both scales.                                               *)

NextBoxes ==
  \/ addBox
  \/ \E i \in 1..Len(boxes) : deleteBox(i)
  \/ \E i \in 1..Len(boxes), d \in Moves, p \in ClientPoints : boxMouseDown(i, d, p)
  \/ animationFrame
  \/ \E p \in ClientPoints : mouseMove(p)
  \/ mouseUp
  \/ \E s \in Scales : updateImageSize(s)

SpecBoxes == Init /\ [][NextBoxes]_vars

(* Mapping: adding and deleting boxes and dragging columns onto them.      *)
NextMapping ==
  \/ addBox
  \/ \E i \in 1..Len(boxes) : deleteBox(i)
  \/ \E c \in 1..Len(columns) : handleColumnDragStart(c)
  \/ \E p \in ClientPoints : mousePress(p)
  \/ \E p \in ClientPoints : mouseMove(p)
  \/ mouseUp
  \/ \E s \in Scales : updateImageSize(s)

SpecMapping == Init /\ [][NextMapping]_vars

(* Export: boxes are added and mapped and the certificates generated; the  *)
(* dataset has 0..MaxRows rows; the mounted DraggableBox variant and the   *)
(* scale play no part.                                                     *)
InitExport ==
  /\ variant = "raf"
  /\ scale = <<1, 1>>
  /\ boxes = <<>>
  /\ columnMappings = <<>>
  /\ draggingColumn = None
  /\ hoveredBox = NoBox
  /\ isDragging = FALSE
  /\ pointer = Away
  /\ mouseDown = FALSE
  /\ dragIdx = 0
  /\ boxIsDragging = FALSE
  /\ isResizing = None
  /\ startPos = NoStartPos
  /\ pendingUpdateRef = <<>>
  /\ animationFrameRef = FALSE
  /\ gestures = 0
  /\ toast = NoToast
  /\ dropped = {}
  /\ rows \in {SubSeq(RowPool, 1, n) : n \in 0..MaxRows}
  /\ isGenerating = FALSE
  /\ exportPc = "idle"
  /\ exportRow = 0
  /\ exportBoxes = <<>>
  /\ exportMappings = <<>>
  /\ canvas = <<>>
  /\ zip = <<>>
  /\ download = <<>>
  /\ prevMappings = <<>>
  /\ computed = <<>>
  /\ Uploaded
  /\ PreviewInit

NextExport ==
  \/ addBox
  \/ \E c \in 1..Len(columns) : handleColumnDragStart(c)
  \/ \E p \in ClientPoints : mousePress(p)
  \/ \E p \in ClientPoints : mouseMove(p)
  \/ mouseUp
  \/ generateCertificates
  \/ imageLoaded
  \/ imageError
  \/ blobReady
  \/ rowError
  \/ zipError
  \/ zipGenerated

SpecExport == InitExport /\ [][NextExport]_vars

(* Box gestures and column drags together, at scale 1.                     *)
InitGuard ==
  /\ variant \in Variants
  /\ scale = <<1, 1>>
  /\ boxes = <<>>
  /\ columnMappings = <<>>
  /\ draggingColumn = None
  /\ hoveredBox = NoBox
  /\ isDragging = FALSE
  /\ pointer = Away
  /\ mouseDown = FALSE
  /\ dragIdx = 0
  /\ boxIsDragging = FALSE
  /\ isResizing = None
  /\ startPos = NoStartPos
  /\ pendingUpdateRef = <<>>
  /\ animationFrameRef = FALSE
  /\ gestures = 0
  /\ toast = NoToast
  /\ dropped = {}
  /\ rows = SubSeq(RowPool, 1, MaxRows)
  /\ isGenerating = FALSE
  /\ exportPc = "idle"
  /\ exportRow = 0
  /\ exportBoxes = <<>>
  /\ exportMappings = <<>>
  /\ canvas = <<>>
  /\ zip = <<>>
  /\ download = <<>>
  /\ prevMappings = <<>>
  /\ computed = <<>>
  /\ Uploaded
  /\ PreviewInit

(* The number of box gestures explored there. *)
MaxGuardGestures == 1

NextGuard ==
  \/ addBox
  \/ \E i \in 1..Len(boxes) : deleteBox(i)
  \/ \E i \in 1..Len(boxes), d \in Moves, p \in ClientPoints :
       /\ draggingColumn = None => gestures < MaxGuardGestures
       /\ boxMouseDown(i, d, p)
  \/ animationFrame
  \/ \E c \in 1..Len(columns) : handleColumnDragStart(c)
  \/ \E p \in ClientPoints : mousePress(p)
  \/ \E p \in ClientPoints : mouseMove(p)
  \/ mouseUp

SpecGuard == InitGuard /\ [][NextGuard]_vars

(* Hovering: a column is dragged over boxes that overlap.  The pointer    *)
(* visits the corners of the first box, points beside them and points     *)
(* that both boxes contain, at either scale.                              *)
HoverPoints ==
  {<<50, 50>>, <<49, 50>>, <<250, 90>>, <<251, 90>>, <<250, 91>>, <<100, 80>>,
   <<125, 45>>, <<126, 45>>, <<260, 100>>}

NextHover ==
  \/ addBox
  \/ \E i \in 1..Len(boxes) : deleteBox(i)
  \/ \E c \in 1..Len(columns) : handleColumnDragStart(c)
  \/ \E p \in HoverPoints : mouseMove(p)
  \/ mouseUp

SpecHover == Init /\ [][NextHover]_vars

----------------------------------------------------------------------------
(* Index: the page that takes the uploads and mounts the workspace *)

(* What an upload handler leaves alone in the workspace below the page. *)
workspaceVars == <<uiCore, animationFrameRef, isGenerating, exportPc, exportRow,
                   exportBoxes, exportMappings, canvas, zip>>

(* toast.error / toast.success of an upload handler. *)
Notify(t) ==
  /\ toast' = t
  /\ download' = <<>>
  /\ prevMappings' = columnMappings
  /\ computed' = <<>>
  /\ UNCHANGED previewVars

(* Files offered as a template.  type is the content type split at "/";    *)
(* the browser reports "" for a file whose type it does not know.          *)
TemplateFiles ==
  {[name |-> "certificate.png", type |-> <<"image", "png">>],
   [name |-> "border.webp", type |-> <<"image", "webp">>],
   [name |-> "notes.pdf", type |-> <<"application", "pdf">>],
   [name |-> "scan", type |-> <<"image">>],
   [name |-> "README", type |-> <<"">>]}

(* A test on the first word of the type alone. *)
StartsWithImageWord(type) == Len(type) >= 1 /\ type[1] = "image"

(* file.type.startsWith("image/") *)
StartsWithImage(type) == Len(type) >= 2 /\ type[1] = "image"

(* The object URLs URL.createObjectURL hands out are numbered; the model   *)
(* stops accepting templates after this many.                              *)
MaxUrls == 2

(* URL.createObjectURL(file): a URL no earlier call returned. *)
createObjectURL(url) == url + 1

(* The upload cards are rendered while a template or a dataset is missing. *)
UploadSectionShown == templateUrl = 0 \/ datasetFile = <<>>

(* templateUrl && datasetFile && columns.length > 0 && <WorkspaceCanvas /> *)
WorkspaceShown == templateUrl # 0 /\ datasetFile # <<>> /\ Len(columns) > 0

handleTemplateUpload(file) ==
  /\ UploadSectionShown
  /\ IF ~StartsWithImage(file.type)
       THEN /\ Notify(Toast("error", "Please upload a valid image file"))
            /\ UNCHANGED <<templateFile, templateUrl>>
       ELSE /\ templateUrl < MaxUrls
            /\ templateFile' = file.name
            /\ templateUrl' = createObjectURL(templateUrl)
            /\ Notify(Toast("success", "Template uploaded successfully!"))
  /\ UNCHANGED <<datasetFile, columns, rows, reading, workspaceVars>>

(* A table as both parsers return it: the header row, then the rows. *)
CsvTable ==
  <<Header, <<Str("Ada"), Str("0")>>, <<Str(""), Str(" ")>>, <<Str("Bob")>>>>

XlsxTable ==
  <<Header, <<Str("Ada"), Num("0")>>, <<Str(""), Str(" ")>>, <<Num("0")>>>>

(* What a dataset file holds: bytes that cannot be read, text or a         *)
(* workbook the parser cannot make a table of, or a table.                 *)
Unreadable == [kind |-> "unreadable", data |-> <<>>]
Malformed == [kind |-> "malformed", data |-> <<>>]
Table(data) == [kind |-> "table", data |-> data]

(* Files offered as a dataset.  name is the file name split at ".". *)
DatasetFiles ==
  {[name |-> <<"people", "csv">>, content |-> Table(CsvTable)],
   [name |-> <<"scores", "TSV">>, content |-> Table(<<Header>>)],
   [name |-> <<"csv">>, content |-> Table(<<>>)],
   [name |-> <<"broken", "csv">>, content |-> Malformed],
   [name |-> <<"locked", "csv">>, content |-> Unreadable],
   [name |-> <<"people", "xlsx">>, content |-> Table(XlsxTable)],
   [name |-> <<"broken", "xls">>, content |-> Malformed],
   [name |-> <<"people", "tar", "gz">>, content |-> Table(CsvTable)]}

toLowerCase(s) ==
  CASE s = "TSV" -> "tsv"
    [] s = "CSV" -> "csv"
    [] OTHER -> s

(* file.name.split(".").pop()?.toLowerCase() *)
Extension(name) == toLowerCase(name[Len(name)])

(* cell.trim() *)
Trim(s) == IF s = " " THEN "" ELSE s

(* row.some((cell) => cell.trim()), row.some((cell) => cell?.toString().trim()) *)
SomeCell(row) == \E c \in 1..Len(row) : Trim(row[c].text) # ""

(* data.slice(1).filter(...) *)
FilledRows(data) == SelectSeq(Tail(data), SomeCell)

(* if (data.length > 0) { setColumns; setRows; toast.success } *)
InstallTable(data) ==
  IF Len(data) > 0
    THEN /\ columns' = Head(data)
         /\ rows' = FilledRows(data)
         /\ Notify(Toast("success", "Dataset uploaded successfully!"))
    ELSE /\ Notify(NoToast)
         /\ UNCHANGED <<columns, rows>>

(* The catch block of handleDatasetUpload. *)
FailedToLoad ==
  /\ Notify(Toast("error", "Failed to load dataset"))
  /\ UNCHANGED <<datasetFile, columns, rows>>

(* Papa.parse(text, { delimiter, complete, error }) and the statement after *)
(* it.  Of text it cannot make a table of, the parser either calls error,   *)
(* or calls complete with the rows it made out; salvaged says which.        *)
PapaParse(file, salvaged) ==
  /\ IF file.content.kind = "table"
       THEN InstallTable(file.content.data)
       ELSE IF salvaged
         THEN InstallTable(<<Header>>)
         ELSE /\ Notify(Toast("error", "Failed to parse dataset"))
              /\ UNCHANGED <<columns, rows>>
  /\ datasetFile' = file.name

(* XLSX.read, sheet_to_json and the statement after them; XLSX.read throws *)
(* on a workbook it cannot read.                                           *)
XlsxRead(file) ==
  IF file.content.kind = "table"
    THEN InstallTable(file.content.data) /\ datasetFile' = file.name
    ELSE FailedToLoad

(* handleDatasetUpload up to its await: the extension is looked at, the    *)
(* bytes are asked for.                                                    *)
handleDatasetUpload(file) ==
  /\ UploadSectionShown
  /\ IF Extension(file.name) \in {"csv", "tsv", "xlsx", "xls"}
       THEN /\ reading' = reading \cup {file}
            /\ Notify(NoToast)
       ELSE /\ Notify(Toast("error", "Unsupported file format"))
            /\ UNCHANGED reading
  /\ UNCHANGED <<templateFile, templateUrl, datasetFile, columns, rows, workspaceVars>>

(* handleDatasetUpload after its await. *)
datasetRead(file, salvaged) ==
  /\ file \in reading
  /\ reading' = reading \ {file}
  /\ IF file.content.kind = "unreadable"
       THEN FailedToLoad
       ELSE IF Extension(file.name) \in {"csv", "tsv"}
         THEN PapaParse(file, salvaged)
         ELSE XlsxRead(file)
  /\ UNCHANGED <<templateFile, templateUrl, workspaceVars>>

InitIndex ==
  /\ variant \in Variants
  /\ scale = <<1, 1>>
  /\ boxes = <<>>
  /\ columnMappings = <<>>
  /\ draggingColumn = None
  /\ hoveredBox = NoBox
  /\ isDragging = FALSE
  /\ pointer = Away
  /\ mouseDown = FALSE
  /\ dragIdx = 0
  /\ boxIsDragging = FALSE
  /\ isResizing = None
  /\ startPos = NoStartPos
  /\ pendingUpdateRef = <<>>
  /\ animationFrameRef = FALSE
  /\ gestures = 0
  /\ toast = NoToast
  /\ dropped = {}
  /\ rows = <<>>
  /\ isGenerating = FALSE
  /\ exportPc = "idle"
  /\ exportRow = 0
  /\ exportBoxes = <<>>
  /\ exportMappings = <<>>
  /\ canvas = <<>>
  /\ zip = <<>>
  /\ download = <<>>
  /\ prevMappings = <<>>
  /\ computed = <<>>
  /\ templateFile = None
  /\ templateUrl = 0
  /\ datasetFile = <<>>
  /\ columns = <<>>
  /\ reading = {}
  /\ PreviewInit

NextIndex ==
  \/ \E file \in TemplateFiles : handleTemplateUpload(file)
  \/ \E file \in DatasetFiles : handleDatasetUpload(file)
  \/ \E file \in DatasetFiles, salvaged \in BOOLEAN : datasetRead(file, salvaged)

SpecIndex == InitIndex /\ [][NextIndex]_vars

----------------------------------------------------------------------------
(* CertificatePreview *)

(* What the handlers of the preview leave alone. *)
outsidePreview == <<uiVars, exportVars, download, prevMappings, computed, indexVars>>

(* The props the parent hands down, one after the other: no box, one box   *)
(* mapped to either column, the box moved, two boxes mapped.               *)
PropsPool ==
  LET b1 == NewBox(<<>>)
      b2 == NewBox(<<b1>>)
      m(c, h) == [columnId |-> c, boxId |-> h]
  IN {[boxes |-> <<>>, columnMappings |-> <<>>],
      [boxes |-> <<b1>>, columnMappings |-> <<>>],
      [boxes |-> <<b1>>, columnMappings |-> <<m("Name", 1)>>],
      [boxes |-> <<b1>>, columnMappings |-> <<m("Score", 1)>>],
      [boxes |-> <<[b1 EXCEPT !.x = 90]>>, columnMappings |-> <<m("Name", 1)>>],
      [boxes |-> <<b1, b2>>, columnMappings |-> <<m("Name", 1), m("Score", 2)>>]}

(* The firstRow prop. *)
firstRow == rows[1]

(* const canMapPreview = boxes.length > 0 && columnMappings.length > 0 *)
canMapPreview == Len(previewProps.boxes) > 0 /\ Len(previewProps.columnMappings) > 0

(* The runs in flight after generatePreview is called with props p: it     *)
(* returns at once without boxes or without mappings, else it awaits the   *)
(* template image.                                                         *)
StartPreview(runs, p) ==
  IF Len(p.boxes) = 0 \/ Len(p.columnMappings) = 0 THEN runs ELSE runs \cup {p}

(* Click on "Show Preview", rendered while nothing is shown and there are  *)
(* boxes and mappings.                                                     *)
showPreviewClick ==
  /\ ~showPreview \/ previewImage = <<>>
  /\ canMapPreview
  /\ previewRuns' = StartPreview(previewRuns, previewProps)
  /\ UNCHANGED <<previewProps, previewImage, showPreview>>
  /\ UNCHANGED outsidePreview

(* The parent renders with new boxes or mappings; the effect calls         *)
(* generatePreview when the preview is shown.                              *)
propsChange(p) ==
  /\ p # previewProps
  /\ previewProps' = p
  /\ previewRuns' = IF showPreview THEN StartPreview(previewRuns, p) ELSE previewRuns
  /\ UNCHANGED <<previewImage, showPreview>>
  /\ UNCHANGED outsidePreview

(* img.onload of a run: it draws its boxes and mappings on the canvas and  *)
(* sets previewImage and showPreview; without a 2d context it returns.     *)
(* When showPreview turns true the effect runs and starts a run with the   *)
(* props of that render.                                                   *)
previewLoaded(run, ctx) ==
  /\ run \in previewRuns
  /\ IF ctx
       THEN /\ previewImage' = <<PreviewBoxes(run.boxes, run.columnMappings, firstRow)>>
            /\ showPreview' = TRUE
            /\ previewRuns' = IF showPreview
                                THEN previewRuns \ {run}
                                ELSE StartPreview(previewRuns \ {run}, previewProps)
       ELSE /\ previewRuns' = previewRuns \ {run}
            /\ UNCHANGED <<previewImage, showPreview>>
  /\ UNCHANGED previewProps
  /\ UNCHANGED outsidePreview

(* img.onerror of a run: catch sets previewImage to "". *)
previewFailed(run) ==
  /\ run \in previewRuns
  /\ previewRuns' = previewRuns \ {run}
  /\ previewImage' = <<>>
  /\ UNCHANGED <<previewProps, showPreview>>
  /\ UNCHANGED outsidePreview

NextPreview ==
  \/ showPreviewClick
  \/ \E p \in PropsPool : propsChange(p)
  \/ \E run \in PropsPool, ctx \in BOOLEAN : previewLoaded(run, ctx)
  \/ \E run \in PropsPool : previewFailed(run)

SpecPreview == InitGuard /\ [][NextPreview]_vars

----------------------------------------------------------------------------
(* Properties *)

(* C1: after any sequence of addBox, deleteBox and updateBox calls, no two *)
(* boxes of the box list have the same id.                                 *)
C1_BoxIdsUnique ==
  \A i, j \in 1..Len(boxes) : i # j => boxes[i].id # boxes[j].id

(* C2: after any sequence of addBox, moves and resizes from any of the 8   *)
(* handles, every box has width >= 50, height >= 30, x >= 0 and y >= 0.    *)
C2_BoxWithinBounds ==
  \A i \in 1..Len(boxes) :
    /\ boxes[i].width >= 50
    /\ boxes[i].height >= 30
    /\ boxes[i].x >= 0
    /\ boxes[i].y >= 0

(* C3: after any sequence of column drops and box deletions no two entries *)
(* of the mapping list have the same columnId, and the list holds no more  *)
(* entries than there are distinct columns ever dropped on a box.          *)
C3_OneEntryPerColumn ==
  /\ \A i, j \in 1..Len(columnMappings) :
       i # j => columnMappings[i].columnId # columnMappings[j].columnId
  /\ Len(columnMappings) <= Cardinality(dropped)

(* C3 happens: a drop after a deletion had removed the entry of another    *)
(* column, so that the list is shorter than the set of columns dropped.    *)
C3_Witness ==
  /\ toast.text = "Mapped column to box"
  /\ Cardinality(dropped) = Len(columns)
  /\ Len(columnMappings) = 1
  /\ columnMappings[1].columnId = toast.column

(* C4: deleteBox(id) removes from the mapping list exactly the entries     *)
(* whose boxId equals id, keeping the others unchanged and in order, and   *)
(* removes from the box list only the deleted box.  A step that shortens   *)
(* the box list is a deleteBox step.                                       *)
C4_DeleteRemovesOneBox ==
  [][Len(boxes') < Len(boxes) =>
       \E i \in 1..Len(boxes) :
         LET others(m) == m.boxId # boxes[i].id
         IN /\ boxes' = SubSeq(boxes, 1, i - 1) \o SubSeq(boxes, i + 1, Len(boxes))
            /\ columnMappings' = SelectSeq(columnMappings, others)]_vars

(* C5: every column drag ends at pointer-up wherever the pointer is        *)
(* released: with the button up, draggingColumn and hoveredBox are cleared *)
(* and the controller is idle.                                             *)
C5_NoDragWithButtonUp ==
  ~mouseDown => draggingColumn = None /\ hoveredBox = NoBox /\ ~isDragging

(* C6: when a column drag is released while no box is hovered, the mapping *)
(* list and the box list stay what they were and the state returns to      *)
(* idle.                                                                   *)
C6_ReleaseOffBoxDiscards ==
  [][mouseDown /\ ~mouseDown' /\ draggingColumn # None /\ hoveredBox = NoBox =>
       /\ columnMappings' = columnMappings
       /\ boxes' = boxes
       /\ draggingColumn' = None
       /\ hoveredBox' = NoBox
       /\ ~isDragging']_vars

(* A drop: the release that ends the drag of a column while a box is       *)
(* hovered.                                                                *)
DropStep ==
  /\ mouseDown /\ ~mouseDown'
  /\ draggingColumn # None /\ draggingColumn' = None
  /\ hoveredBox # NoBox

(* C7: dropping a column that is already mapped onto a different box       *)
(* overwrites the boxId of the column's entry with the new box id; the     *)
(* number of entries is unchanged and every other entry is untouched.      *)
C7_RedropOverwritesBoxId ==
  [][(/\ DropStep
      /\ \E k \in 1..Len(columnMappings) :
           /\ columnMappings[k].columnId = draggingColumn
           /\ columnMappings[k].boxId # hoveredBox) =>
       /\ Len(columnMappings') = Len(columnMappings)
       /\ \A k \in 1..Len(columnMappings) :
            columnMappings'[k] =
              IF columnMappings[k].columnId = draggingColumn
                THEN [columnId |-> draggingColumn, boxId |-> hoveredBox]
                ELSE columnMappings[k]]_vars

(* C7 happens: a drop found the column mapped to another box, next to an   *)
(* entry of another column.                                                *)
C7_Witness ==
  /\ toast.text = "Mapped column to box"
  /\ Len(prevMappings) = Len(columns)
  /\ \E k \in 1..Len(prevMappings) :
       /\ prevMappings[k].columnId = toast.column
       /\ prevMappings[k].boxId # toast.box
       /\ columnMappings[k].boxId = toast.box

(* C8: dropping the same column on the same box again leaves the mapping   *)
(* list equal to what it was after the first drop.                         *)
C8_SameDropIdempotent ==
  [][(/\ DropStep
      /\ \E k \in 1..Len(columnMappings) :
           columnMappings[k] = [columnId |-> draggingColumn, boxId |-> hoveredBox]) =>
       columnMappings' = columnMappings]_vars

(* C8 happens: a drop found its own (column, box) entry first in a list of *)
(* two.                                                                    *)
C8_Witness ==
  /\ toast.text = "Mapped column to box"
  /\ Len(prevMappings) = Len(columns)
  /\ prevMappings[1] = [columnId |-> toast.column, boxId |-> toast.box]
  /\ columnMappings = prevMappings

(* The notifications with which generateCertificates answers a click. *)
ExportClickTexts ==
  {"Please add at least one text box", "Please map all text boxes to columns",
   "Generating certificates..."}

(* C9: an export started with zero boxes, or with a box that no mapping    *)
(* entry points at, fails with a precondition error: no row is rendered,   *)
(* no archive is produced or downloaded, the generating flag is not set.   *)
C9_ExportNeedsMappedBoxes ==
  [][(/\ toast'.text \in ExportClickTexts
      /\ ~isGenerating
      /\ \/ Len(boxes) = 0
         \/ \E k \in 1..Len(boxes) :
              \A m \in 1..Len(columnMappings) : columnMappings[m].boxId # boxes[k].id) =>
       /\ toast'.kind = "error"
       /\ isGenerating' = FALSE
       /\ exportPc' = "idle"
       /\ canvas' = <<>>
       /\ zip' = <<>>
       /\ download' = <<>>]_vars

(* C9 happens: the export was refused with one box mapped and one not. *)
C9_Witness ==
  /\ toast.text = "Please map all text boxes to columns"
  /\ Len(boxes) = 2
  /\ Len(columnMappings) = 1
  /\ ~isGenerating
  /\ exportPc = "idle"

(* C10: a successful export of N rows downloads one archive with exactly N *)
(* entries, entry i named certificate-i.png and rendered from row i, and   *)
(* the success notification reports N.                                     *)
C10_ArchiveHoldsEveryRow ==
  [][download' # <<>> =>
       LET archive == download'[1]
       IN /\ Len(archive) = Len(rows)
          /\ \A k \in 1..Len(rows) :
               /\ archive[k].name = k
               /\ archive[k].image = DrawBoxes(exportBoxes, exportMappings, rows[k])
          /\ toast'.kind = "success"
          /\ toast'.count = Len(rows)]_vars

(* C11: when an error interrupts an export (the template fails to decode,  *)
(* rendering or encoding a row fails, the archive cannot be built), the    *)
(* generic failure notification is shown, no archive is offered for        *)
(* download, and the generating flag is cleared so that a new export can   *)
(* be started.  An export that ends without a download was interrupted.    *)
C11_FailedExportLeavesNothing ==
  [][/\ (exportPc # "idle" /\ exportPc' = "idle" /\ download' = <<>>) =>
          /\ toast' = Toast("error", "Failed to generate certificates")
          /\ ~isGenerating'
          /\ zip' = <<>>
     /\ (exportPc # "idle" /\ toast'.text = "Failed to generate certificates") =>
          /\ download' = <<>>
          /\ ~isGenerating'
          /\ exportPc' = "idle"]_vars

(* C11 happens: an export of two rows failed, and the button is enabled    *)
(* again.                                                                  *)
C11_Witness ==
  /\ toast = Toast("error", "Failed to generate certificates")
  /\ Len(rows) = 2
  /\ ~isGenerating
  /\ exportPc = "idle"
  /\ download = <<>>
  /\ Len(boxes) # 0

(* The boxes of bs that some entry of ms points at, in list order. *)
MappedBoxes(bs, ms) ==
  LET mapped(b) == \E m \in 1..Len(ms) : ms[m].boxId = b.id
  IN SelectSeq(bs, mapped)

(* C12: the render of a row draws, for every box that has a mapping and in *)
(* box order, exactly one text: the cell of the row at the position of the *)
(* mapped column among the headers, the empty string when that position is *)
(* out of range or the cell is absent, anchored at (x + width/2,           *)
(* y + height/2); it draws nothing for a box without a mapping; the        *)
(* preview computes the same draw list for the row.                        *)
C12_RenderDrawsMappedCells ==
  exportPc = "blob" =>
    LET row == rows[exportRow + 1]
        drawn == MappedBoxes(exportBoxes, exportMappings)
    IN /\ Len(canvas) = Len(drawn)
       /\ \A k \in 1..Len(drawn) :
            /\ canvas[k].x2 = 2 * drawn[k].x + drawn[k].width
            /\ canvas[k].y2 = 2 * drawn[k].y + drawn[k].height
            /\ \E m \in 1..Len(exportMappings) :
                 /\ exportMappings[m].boxId = drawn[k].id
                 /\ \E idx \in 0..Len(columns) :
                      /\ idx # 0 => columns[idx] = exportMappings[m].columnId
                      /\ idx = 0 => \A j \in 1..Len(columns) :
                                      columns[j] # exportMappings[m].columnId
                      /\ canvas[k].text =
                           IF idx \in 1..Len(row) THEN row[idx].text ELSE ""
       /\ canvas = generatePreview(exportBoxes, exportMappings, row)

(* C13: while a box is resized from a handle that moves the left edge (w,  *)
(* nw, sw) its right edge x + width stays where it was at the press, for   *)
(* every pointer delta; likewise a handle that moves the top edge (n, ne,  *)
(* nw) keeps the bottom edge y + height.                                   *)
C13_OppositeEdgeFixed ==
  (dragIdx # 0 /\ isResizing # None) =>
    /\ Includes(isResizing, "w") =>
         boxes[dragIdx].x + boxes[dragIdx].width = startPos.boxX + startPos.width
    /\ Includes(isResizing, "n") =>
         boxes[dragIdx].y + boxes[dragIdx].height = startPos.boxY + startPos.height

(* C14: a resize from handle e changes only the width of the resized box:  *)
(* its x, y, height, id and columnId stay, and no other box changes.       *)
C14_EastResizeOnlyWidth ==
  [][(dragIdx # 0 /\ isResizing = "e") =>
       /\ Len(boxes') = Len(boxes)
       /\ boxes'[dragIdx] = [boxes[dragIdx] EXCEPT !.width = boxes'[dragIdx].width]
       /\ \A k \in 1..Len(boxes) : k # dragIdx => boxes'[k] = boxes[k]]_vars

(* C15: at every moment each box receives at most one column mapping: no   *)
(* two entries of the mapping list have the same boxId.                    *)
C15_OneEntryPerBox ==
  \A i, j \in 1..Len(columnMappings) :
    i # j => columnMappings[i].boxId # columnMappings[j].boxId

(* C16: no final update of a box move or resize is dropped: after the      *)
(* pointer-up that ends the gesture, the stored position and size of the   *)
(* box are what the last pointer-move before it computed, whether or not   *)
(* an animation frame fired or a requested frame was cancelled by a        *)
(* re-render in between.                                                   *)
C16_FinalUpdateApplied ==
  (~mouseDown /\ computed # <<>>) =>
    Rect(boxes[computed[1].idx]) = computed[1].rect

(* C16 happens: in the animation-frame variant a resize ended whose last   *)
(* pointer-move computed a new size, and no frame is left requested.       *)
C16_Witness ==
  /\ variant = "raf"
  /\ ~mouseDown
  /\ computed # <<>>
  /\ computed[1].rect.width # NewBox(<<>>).width
  /\ Rect(boxes[computed[1].idx]) = computed[1].rect
  /\ ~animationFrameRef

C18_OverlayMatchesHitTest ==
  \A i \in 1..Len(boxes), p \in ClientPoints :
    Region(p) = "template" =>
      (Contains(boxes[i], ToNatural(p[1]), ToNatural(p[2])) <=> OnOverlay(boxes[i], p))

(* C19: a dataset upload that is rejected for its extension, or whose file *)
(* cannot be read or parsed, shows an error notification and leaves        *)
(* columns, rows and datasetFile as they were.                             *)
C19_FailedDatasetInstallsNothing ==
  [][/\ \A file \in reading \ reading' :
          file.content.kind # "table" =>
            /\ toast'.kind = "error"
            /\ UNCHANGED <<columns, rows, datasetFile>>
     /\ toast'.text \in {"Unsupported file format", "Failed to load dataset",
                         "Failed to parse dataset"} =>
          UNCHANGED <<columns, rows, datasetFile>>]_vars

(* C20: a template upload whose content type does not start with "image/" *)
(* is answered with an error notification and changes neither             *)
(* templateFile nor templateUrl; whenever one of them changes, the new     *)
(* template is a file of an image type.                                    *)
C20_NonImageTemplateRejected ==
  [][/\ toast'.text = "Please upload a valid image file" =>
          /\ toast'.kind = "error"
          /\ UNCHANGED <<templateFile, templateUrl>>
     /\ (templateFile' # templateFile \/ templateUrl' # templateUrl) =>
          \E file \in TemplateFiles :
            /\ file.name = templateFile'
            /\ Len(file.type) = 2
            /\ file.type[1] = "image"]_vars

(* A file that is no image was rejected after a template had been taken. *)
C20_Witness ==
  /\ toast.text = "Please upload a valid image file"
  /\ templateFile # None
  /\ templateUrl > 0

(* C21: when the button is released in a column drag of column c while box *)
(* h is hovered, the mapping list then holds the entry (c -> h), box h     *)
(* shows columnId c, a success notification names c and h, and             *)
(* draggingColumn and hoveredBox are cleared.                              *)
C21_DropCommitsMapping ==
  [][(mouseDown /\ ~mouseDown' /\ draggingColumn # None /\ hoveredBox # NoBox) =>
       /\ \E k \in 1..Len(columnMappings') :
            columnMappings'[k] = [columnId |-> draggingColumn, boxId |-> hoveredBox]
       /\ \E i \in 1..Len(boxes') : boxes'[i].id = hoveredBox
       /\ \A i \in 1..Len(boxes') :
            boxes'[i].id = hoveredBox => boxes'[i].columnId = draggingColumn
       /\ toast' = [Toast("success", "Mapped column to box")
                      EXCEPT !.column = draggingColumn, !.box = hoveredBox]
       /\ draggingColumn' = None
       /\ hoveredBox' = NoBox]_vars

(* C22: during a column drag every pointer move sets hoveredBox to the id  *)
(* of the first box of the list (creation order) whose rectangle contains  *)
(* the pointer's natural-space point, edges included, and to none when no  *)
(* box contains it.                                                        *)
C22_HoverIsFirstContainingBox ==
  [][(draggingColumn # None /\ draggingColumn' # None /\ pointer' # pointer) =>
       LET px == (pointer'[1] * scale[2]) \div scale[1]
           py == (pointer'[2] * scale[2]) \div scale[1]
           hits == {i \in 1..Len(boxes) :
                      /\ boxes[i].x <= px /\ px <= boxes[i].x + boxes[i].width
                      /\ boxes[i].y <= py /\ py <= boxes[i].y + boxes[i].height}
       IN IF hits = {}
            THEN hoveredBox' = NoBox
            ELSE \E i \in hits :
                   /\ \A j \in hits : i <= j
                   /\ hoveredBox' = boxes[i].id]_vars

(* C22 happens: the pointer is on the right edge of the first box and      *)
(* inside the second, and the first box is hovered.                        *)
C22_Witness ==
  /\ draggingColumn # None
  /\ Len(boxes) = 2
  /\ boxes[1].id # boxes[2].id
  /\ ToNatural(pointer[1]) = boxes[1].x + boxes[1].width
  /\ Contains(boxes[1], ToNatural(pointer[1]), ToNatural(pointer[2]))
  /\ Contains(boxes[2], ToNatural(pointer[1]), ToNatural(pointer[2]))
  /\ hoveredBox = boxes[1].id

(* C23: a column that has a mapping entry keeps an entry in every step,    *)
(* whatever the operation, unless the step deletes the box the entry       *)
(* points to.                                                              *)
C23_ColumnStaysMapped ==
  [][\A k \in 1..Len(columnMappings) :
       \/ \E j \in 1..Len(columnMappings') :
            columnMappings'[j].columnId = columnMappings[k].columnId
       \/ /\ Len(boxes') < Len(boxes)
          /\ \E i \in 1..Len(boxes) : boxes[i].id = columnMappings[k].boxId
          /\ ~\E i \in 1..Len(boxes') : boxes'[i].id = columnMappings[k].boxId]_vars

(* C23 happens: of two mapped columns, a deleteBox took the entry of the   *)
(* one that pointed to the deleted box and left the other.                 *)
C23_Witness ==
  /\ toast.text = "Text box deleted"
  /\ Len(prevMappings) = 2
  /\ Len(columnMappings) = 1
  /\ \E i \in 1..Len(boxes) : boxes[i].id = columnMappings[1].boxId

(* C24: every mapping entry points to a box of the list, and the hovered   *)
(* box of a column drag in progress is a box of the list.                  *)
C24_NoDanglingReference ==
  /\ \A k \in 1..Len(columnMappings) :
       \E i \in 1..Len(boxes) : boxes[i].id = columnMappings[k].boxId
  /\ (draggingColumn # None /\ hoveredBox # NoBox) =>
       \E i \in 1..Len(boxes) : boxes[i].id = hoveredBox

(* C24 happens: the first of two boxes was deleted, the second keeps its   *)
(* mapping entry, and a column is dragged over it.                         *)
C24_Witness ==
  /\ Len(boxes) = 1
  /\ boxes[1].id = 2
  /\ Len(columnMappings) = 1
  /\ columnMappings[1].boxId = 2
  /\ draggingColumn # None
  /\ hoveredBox = 2

(* C25: the column label of a box agrees with the mapping list: a box b    *)
(* with columnId c has the entry (c -> b.id) in the list.                  *)
C25_LabelAgreesWithMapping ==
  \A i \in 1..Len(boxes) :
    boxes[i].columnId # None =>
      \E k \in 1..Len(columnMappings) :
        columnMappings[k] = [columnId |-> boxes[i].columnId, boxId |-> boxes[i].id]

(* C26: the text the export draws into a box, and the text the preview     *)
(* draws into it, is the cell of the column the box shows as its label     *)
(* (box.columnId).                                                         *)
C26_RenderedColumnIsLabel ==
  exportPc = "blob" =>
    LET row == rows[exportRow + 1]
        drawn == MappedBoxes(exportBoxes, exportMappings)
        preview == generatePreview(exportBoxes, exportMappings, row)
    IN /\ Len(canvas) = Len(drawn)
       /\ Len(preview) = Len(drawn)
       /\ \A k \in 1..Len(drawn) :
            /\ drawn[k].columnId # None
            /\ canvas[k].text = CellText(row, drawn[k].columnId)
            /\ preview[k].text = CellText(row, drawn[k].columnId)

(* C27: an export run works on a snapshot.  The boxes and mappings of the  *)
(* run are those of the click that started it and stay so until the run    *)
(* ends, and every image of the run, on the canvas or in the archive, is   *)
(* the draw list of these boxes and mappings for its row, whatever happens *)
(* to boxes and columnMappings in between.                                 *)
C27_ExportRendersSnapshot ==
  [][/\ (exportPc = "idle" /\ exportPc' # "idle") =>
          exportBoxes' = boxes /\ exportMappings' = columnMappings
     /\ (exportPc # "idle" /\ exportPc' # "idle") =>
          exportBoxes' = exportBoxes /\ exportMappings' = exportMappings
     /\ exportPc' = "blob" =>
          canvas' = DrawBoxes(exportBoxes', exportMappings', rows'[exportRow' + 1])
     /\ \A k \in 1..Len(zip') :
          zip'[k].image = DrawBoxes(exportBoxes', exportMappings', rows'[zip'[k].name])]_vars

(* C27 happens: the second row is rendered after a column was dropped on   *)
(* another box while the run was suspended.                                *)
C27_Witness ==
  /\ exportPc = "blob"
  /\ exportRow = 1
  /\ Len(zip) = 1
  /\ columnMappings # exportMappings
  /\ DrawBoxes(boxes, columnMappings, rows[2]) # canvas

(* C28: at most one export is in flight.  isGenerating is true exactly     *)
(* while a run of generateCertificates that passed its preconditions has   *)
(* neither succeeded nor failed, and no click on the button is taken while *)
(* isGenerating is true.                                                   *)
C28_OneExportInFlight ==
  [][/\ isGenerating <=> exportPc # "idle"
     /\ isGenerating' <=> exportPc' # "idle"
     /\ toast'.text \in ExportClickTexts => ~isGenerating]_vars

(* C28 happens: a run is suspended while the pointer is free to click and  *)
(* there are boxes.                                                        *)
C28_Witness ==
  /\ isGenerating
  /\ exportPc = "blob"
  /\ ClickOnButton
  /\ Len(boxes) # 0

(* C29: a run started earlier never overwrites the result of a run        *)
(* started later.  Whenever a run puts its image on display while there    *)
(* are boxes and mappings, the image is the one rendered from the boxes    *)
(* and mappings the preview has now, or a run holding these is still in    *)
(* flight and will replace it.                                             *)
C29_PreviewShowsLatest ==
  [][(/\ previewImage' # previewImage
      /\ previewImage' # <<>>
      /\ canMapPreview) =>
       \/ previewImage'[1] =
            generatePreview(previewProps.boxes, previewProps.columnMappings, firstRow)
       \/ previewProps \in previewRuns']_vars

(* C30: the page is never a dead end: whenever a template and a dataset    *)
(* file are both recorded, so that the upload section is hidden, columns   *)
(* is not empty and the workspace is shown.                                *)
C30_NoDeadEnd ==
  ~UploadSectionShown => (Len(columns) > 0 /\ WorkspaceShown)

====
